---- MODULE Spec2Model ----
(***************************************************************************)
(* A model of tapem.py (olehermanse/tap-em): the Tapper object, which      *)
(* reads TAP lines, validates them, echoes them and derives a summary and  *)
(* an exit code, and the __main__ block that drives it.                    *)
(*                                                                         *)
(* Text is a sequence of atoms.  Every character that the program          *)
(* inspects (the characters of an input line) is an atom of its own, so    *)
(* strip, split, startswith, replace and int work character by character.  *)
(* A literal of the program that is only ever copied ("Invalid range: ")   *)
(* is one atom.  The rendered text is the concatenation of the atoms.      *)
(***************************************************************************)
EXTENDS Integers, Sequences, FiniteSets, TLC

\* ------------------------------------------------------------- bounds ----
\* Longest input stream that drain is given.
MaxLines == 3
\* Largest test number that the generated result and plan lines mention.
MaxNum == 2
\* Longest input stream in the specification that repeats finalize/summarize.
MaxApiLines == 2
\* How many calls of finalize, and of summarize, beyond the one of __main__.
MaxRepeat == 1

\* ------------------------------------------------- program constants ----
\* min(self.error_count, 100)
ExitCap == 100
\* self.error_count = -1 in __init__
Unset == -1
\* The exit status of a Python process that dies of an uncaught exception.
TracebackStatus == 1

\* --------------------------------------------------------- text helpers ----
NL == "\n"
Whitespace == {" ", "\t", NL, "\r"}
Digit == <<"0", "1", "2", "3", "4", "5", "6", "7", "8", "9">>
DigitChars == {Digit[i] : i \in 1..10}
DigitVal(c) == (CHOOSE i \in 1..10 : Digit[i] = c) - 1

RECURSIVE NatStr(_)
NatStr(n) ==
    IF n < 10 THEN <<Digit[n + 1]>>
    ELSE NatStr(n \div 10) \o <<Digit[(n % 10) + 1]>>

\* str(n) for an int n, as "{}".format(n) renders it.
IntStr(n) == IF n < 0 THEN <<"-">> \o NatStr(-n) ELSE NatStr(n)

\* A value held in a Python variable that is either an int or a str
\* (found_number's num after the try block; the elements of self.numbers).
IntVal(n) == [isint |-> TRUE, n |-> n, s |-> <<>>]
StrVal(s) == [isint |-> FALSE, n |-> 0, s |-> s]
\* "{}".format(v)
Format(v) == IF v.isint THEN IntStr(v.n) ELSE v.s

RECURSIVE LStrip(_)
LStrip(s) ==
    IF s = <<>> THEN s
    ELSE IF Head(s) \in Whitespace THEN LStrip(Tail(s)) ELSE s

RECURSIVE RStrip(_)
RStrip(s) ==
    IF s = <<>> THEN s
    ELSE IF s[Len(s)] \in Whitespace THEN RStrip(SubSeq(s, 1, Len(s) - 1))
    ELSE s

\* str.strip()
Strip(s) == RStrip(LStrip(s))

\* str.startswith(p)
StartsWith(s, p) == Len(s) >= Len(p) /\ SubSeq(s, 1, Len(p)) = p

\* The first whitespace-free word of s (s does not start with whitespace).
RECURSIVE FirstWord(_)
FirstWord(s) ==
    IF s = <<>> \/ Head(s) \in Whitespace THEN <<>>
    ELSE <<Head(s)>> \o FirstWord(Tail(s))

\* str.split(): the maximal runs of non-whitespace characters.
RECURSIVE Split(_)
Split(s) ==
    LET t == LStrip(s) IN
    IF t = <<>> THEN <<>>
    ELSE LET w == FirstWord(t) IN
         <<w>> \o Split(SubSeq(t, Len(w) + 1, Len(t)))

\* word.replace("..", " "): leftmost non-overlapping occurrences.
RECURSIVE ReplaceDots(_)
ReplaceDots(s) ==
    IF s = <<>> THEN s
    ELSE IF Len(s) >= 2 /\ s[1] = "." /\ s[2] = "."
         THEN <<" ">> \o ReplaceDots(SubSeq(s, 3, Len(s)))
         ELSE <<Head(s)>> \o ReplaceDots(Tail(s))

\* ".." in s
HasDotDot(s) == \E i \in 1..(Len(s) - 1) : s[i] = "." /\ s[i + 1] = "."
\* "." in s
HasDot(s) == \E i \in 1..Len(s) : s[i] = "."

\* The part of an int literal after its optional sign.
Unsigned(tok) ==
    IF tok # <<>> /\ Head(tok) \in {"+", "-"} THEN Tail(tok) ELSE tok

\* int(tok) does not raise ValueError: an optional sign, then decimal digits
\* that single underscores may separate (tok has no whitespace: it is a word
\* of split()).
IsInt(tok) ==
    LET u == Unsigned(tok) IN
    /\ u # <<>>
    /\ \A i \in 1..Len(u) : u[i] \in DigitChars \cup {"_"}
    /\ u[1] \in DigitChars
    /\ u[Len(u)] \in DigitChars
    /\ \A i \in 1..(Len(u) - 1) : ~(u[i] = "_" /\ u[i + 1] = "_")

RECURSIVE DigitsVal(_, _)
DigitsVal(u, acc) ==
    IF u = <<>> THEN acc
    ELSE IF Head(u) = "_" THEN DigitsVal(Tail(u), acc)
    ELSE DigitsVal(Tail(u), 10 * acc + DigitVal(Head(u)))

\* int(tok), where IsInt(tok).
ParseInt(tok) ==
    LET v == DigitsVal(Unsigned(tok), 0) IN
    IF Head(tok) = "-" THEN -v ELSE v

\* x in seq
In(x, seq) == \E i \in 1..Len(seq) : seq[i] = x

\* def prefixed(string, emoji): "{}  | {}".format(emoji, string)
prefixed(string, emoji) == <<emoji, "  | ">> \o string

\* ------------------------------------------------------ Tapper.__init__ ----
\* self.emoji: the glyphs, written as their code points.
EmojiTable ==
    [success |-> "U+2705", failure |-> "U+274C", tap |-> "U+1F6B0",
     tap_error |-> "U+1F6B1", great_success |-> "U+2764 U+FE0F",
     disaster |-> "U+1F525", catastrophe |-> "U+1F4A5",
     attention |-> "U+26A0 U+FE0F"]

\* self.ascii
AsciiTable ==
    [success |-> ":-)", failure |-> ":-(", tap |-> "^.^",
     tap_error |-> "o.O", great_success |-> "<3 ",
     disaster |-> ">.<", catastrophe |-> "v.v",
     attention |-> "!! "]

\* The literals of the protocol errors.
MsgInvalidNumber == "Invalid test number: '"
MsgNoRangeBefore == "No test range defined before result no. "
MsgNoFit == "Test result "
MsgNoFitTail == " doesn't fit into any previous range"
MsgMultiple == "Multiple results for test no. "
MsgInvalidRange == "Invalid range: "
MsgOverlap == "Overlapping range '"
MsgNoRange == "No test range found"
MsgNoResults == "No test results found"
MsgMore == "More test results than possible for test range: "

\* A Tapper after __init__, with the text the process has printed so far
\* (stdout) and the exception that is propagating, if any (exc).
NewTapper ==
    [errors |-> <<>>, successes |-> <<>>, results |-> <<>>, numbers |-> <<>>,
     range |-> <<>>, tap_errors |-> <<>>, error_count |-> Unset,
     emoji |-> EmojiTable, stdout |-> <<>>, exc |-> "none"]

\* self.tap_errors.append(msg)
TapError(self, msg) == [self EXCEPT !.tap_errors = Append(@, msg)]

\* def set_ascii(self)
set_ascii(self) == [self EXCEPT !.emoji = AsciiTable]

\* ------------------------------------------------- Tapper.found_number ----
\* found_number without the conversion: num stays the str it was given.
NumValue_unconverted(num) == StrVal(num)

\* num after the try block: the int, or the unchanged str when int(num)
\* raised ValueError.
NumValue(num) == IF IsInt(num) THEN IntVal(ParseInt(num)) ELSE StrVal(num)

\* num in self.range: the range holds ints only, and no str equals an int.
InRange(self, v) == v.isint /\ In(v.n, self.range)

\* found_number that appends num to self.numbers whether or not it is there.
found_number_append_always(self, num) ==
    LET v == NumValue(num)
        s1 == IF IsInt(num) THEN self
              ELSE TapError(self, <<MsgInvalidNumber>> \o num \o <<"'">>)
        s2 == IF Len(s1.range) = 0
              THEN TapError(s1, <<MsgNoRangeBefore>> \o Format(v))
              ELSE IF ~InRange(s1, v)
                   THEN TapError(s1, <<MsgNoFit>> \o Format(v) \o <<MsgNoFitTail>>)
                   ELSE s1
        s3 == IF In(v, s2.numbers)
              THEN TapError(s2, <<MsgMultiple>> \o Format(v))
              ELSE s2
    IN  [s3 EXCEPT !.numbers = Append(@, v)]

\* found_number with "if" in place of "elif": the range check runs whether
\* or not a range has been declared.
found_number_independent(self, num) ==
    LET v == NumValue(num)
        s1 == IF IsInt(num) THEN self
              ELSE TapError(self, <<MsgInvalidNumber>> \o num \o <<"'">>)
        s2 == IF Len(s1.range) = 0
              THEN TapError(s1, <<MsgNoRangeBefore>> \o Format(v))
              ELSE s1
        s3 == IF ~InRange(s2, v)
              THEN TapError(s2, <<MsgNoFit>> \o Format(v) \o <<MsgNoFitTail>>)
              ELSE s2
    IN  IF In(v, s3.numbers)
        THEN TapError(s3, <<MsgMultiple>> \o Format(v))
        ELSE [s3 EXCEPT !.numbers = Append(@, v)]

\* found_number that lets a result pass while no range is declared, as if
\* the plan could still come.
found_number_plan_later(self, num) ==
    LET v == NumValue(num)
        s1 == IF IsInt(num) THEN self
              ELSE TapError(self, <<MsgInvalidNumber>> \o num \o <<"'">>)
        s2 == IF Len(s1.range) = 0
              THEN s1
              ELSE IF ~InRange(s1, v)
                   THEN TapError(s1, <<MsgNoFit>> \o Format(v) \o <<MsgNoFitTail>>)
                   ELSE s1
    IN  IF In(v, s2.numbers)
        THEN TapError(s2, <<MsgMultiple>> \o Format(v))
        ELSE [s2 EXCEPT !.numbers = Append(@, v)]

\* def found_number(self, num)
found_number(self, num) ==
    LET v == NumValue(num)
        s1 == IF IsInt(num) THEN self
              ELSE TapError(self, <<MsgInvalidNumber>> \o num \o <<"'">>)
        s2 == IF Len(s1.range) = 0
              THEN TapError(s1, <<MsgNoRangeBefore>> \o Format(v))
              ELSE IF ~InRange(s1, v)
                   THEN TapError(s1, <<MsgNoFit>> \o Format(v) \o <<MsgNoFitTail>>)
                   ELSE s1
    IN  IF In(v, s2.numbers)
        THEN TapError(s2, <<MsgMultiple>> \o Format(v))
        ELSE [s2 EXCEPT !.numbers = Append(@, v)]

\* --------------------------------------------------- Tapper.maybe_range ----
\* The loop over range(a, b): the last number of the plan is left out.
RangeLoop_exclusive(self, word, a, b) ==
    LET new_range == [i \in 1..(b - a) |-> a + i - 1]
        Fresh(num) == ~In(num, self.range)
        Old(num) == In(num, self.range)
        overlaps == SelectSeq(new_range, Old)
    IN  [self EXCEPT
            !.range = @ \o SelectSeq(new_range, Fresh),
            !.tap_errors = @ \o
                [i \in 1..Len(overlaps) |->
                    <<MsgOverlap>> \o word \o <<"' at '">>
                    \o IntStr(overlaps[i]) \o <<"'">>]]

\* The loop that appends every number of the plan to self.range, the ones
\* that are in it too.
RangeLoop_extend(self, word, a, b) ==
    LET new_range == [i \in 1..(b + 1 - a) |-> a + i - 1]
        Old(num) == In(num, self.range)
        overlaps == SelectSeq(new_range, Old)
    IN  [self EXCEPT
            !.range = @ \o new_range,
            !.tap_errors = @ \o
                [i \in 1..Len(overlaps) |->
                    <<MsgOverlap>> \o word \o <<"' at '">>
                    \o IntStr(overlaps[i]) \o <<"'">>]]

\* for num in range(a, b + 1): a number that self.range lacks is appended to
\* it, any other number gives an overlap error.  The numbers of one loop are
\* distinct, so no iteration changes what a later one finds in self.range,
\* and the loop is written without recursion.
RangeLoop(self, word, a, b) ==
    LET new_range == [i \in 1..(b + 1 - a) |-> a + i - 1]
        Fresh(num) == ~In(num, self.range)
        Old(num) == In(num, self.range)
        overlaps == SelectSeq(new_range, Old)
    IN  [self EXCEPT
            !.range = @ \o SelectSeq(new_range, Fresh),
            !.tap_errors = @ \o
                [i \in 1..Len(overlaps) |->
                    <<MsgOverlap>> \o word \o <<"' at '">>
                    \o IntStr(overlaps[i]) \o <<"'">>]]

\* def maybe_range(self, word)
maybe_range(self, word) ==
    LET processed == ReplaceDots(word)
        \* print(processed)
        s1 == [self EXCEPT !.stdout = @ \o processed \o <<NL>>]
        parts == Split(processed)
    IN  IF HasDot(processed) THEN s1
        ELSE IF Len(parts) # 2 THEN s1
        ELSE IF ~IsInt(parts[1]) \/ ~IsInt(parts[2])
             THEN [s1 EXCEPT !.exc = "ValueError"]
        ELSE LET a == ParseInt(parts[1])
                 b == ParseInt(parts[2])
             IN  IF a > b THEN TapError(s1, <<MsgInvalidRange>> \o word)
                 ELSE RangeLoop(s1, word, a, b)

\* --------------------------------------------------- Tapper.process_line ----
\* The lines from "seq = stripped.split()" to the end of process_line.
RangeAndEcho(self, line, stripped) ==
    LET seq == Split(stripped)
        s1 == IF Len(seq) > 0 /\ HasDotDot(seq[1])
              THEN maybe_range(self, seq[1]) ELSE self
    IN  IF s1.exc # "none" THEN s1
        \* print(line, end="")
        ELSE [s1 EXCEPT !.stdout = @ \o line]

\* def process_line(self, line)
process_line(self, line) ==
    LET stripped == Strip(line)
        words == Split(stripped)
    IN  IF StartsWith(stripped, <<"o", "k">>)
        THEN IF Len(words) < 2 THEN [self EXCEPT !.exc = "IndexError"]
             ELSE LET result == prefixed(stripped, self.emoji.success)
                      s1 == [self EXCEPT !.successes = Append(@, result),
                                         !.results = Append(@, result)]
                  IN  RangeAndEcho(found_number(s1, words[2]), line, stripped)
        ELSE IF StartsWith(stripped, <<"n", "o", "t", " ", "o", "k">>)
        THEN IF Len(words) < 3 THEN [self EXCEPT !.exc = "IndexError"]
             ELSE LET result == prefixed(stripped, self.emoji.failure)
                      s1 == [self EXCEPT !.errors = Append(@, result),
                                         !.results = Append(@, result)]
                  IN  RangeAndEcho(found_number(s1, words[3]), line, stripped)
        ELSE RangeAndEcho(self, line, stripped)

\* ------------------------------------------------------ Tapper.finalize ----
Max(a, b) == IF a >= b THEN a ELSE b
Min(a, b) == IF a <= b THEN a ELSE b

\* finalize that counts the protocol errors before it appends its own.
finalize_count_first(self) ==
    LET errs == Len(self.errors)
        numbers == Len(self.numbers)
        res == Len(self.results)
        test_range == Len(self.range)
        s1 == IF test_range <= 0 THEN TapError(self, <<MsgNoRange>>) ELSE self
        s2 == IF res <= 0 THEN TapError(s1, <<MsgNoResults>>) ELSE s1
        s3 == IF (numbers > test_range) \/ (res > test_range)
              THEN TapError(s2, <<MsgMore>> \o IntStr(Max(numbers, res))
                                \o <<"/">> \o IntStr(test_range))
              ELSE s2
    IN  [s3 EXCEPT !.error_count = errs + Len(self.tap_errors)]

\* finalize that tests "test_range < 0" for the missing plan.
finalize_strict_zero(self) ==
    LET errs == Len(self.errors)
        numbers == Len(self.numbers)
        res == Len(self.results)
        test_range == Len(self.range)
        s1 == IF test_range < 0 THEN TapError(self, <<MsgNoRange>>) ELSE self
        s2 == IF res <= 0 THEN TapError(s1, <<MsgNoResults>>) ELSE s1
        s3 == IF (numbers > test_range) \/ (res > test_range)
              THEN TapError(s2, <<MsgMore>> \o IntStr(Max(numbers, res))
                                \o <<"/">> \o IntStr(test_range))
              ELSE s2
    IN  [s3 EXCEPT !.error_count = errs + Len(s3.tap_errors)]

\* finalize that counts the failures by their glyph in self.results.
finalize_by_glyph(self) ==
    LET errs == Cardinality({i \in 1..Len(self.results) :
                                self.results[i][1] = EmojiTable.failure})
        numbers == Len(self.numbers)
        res == Len(self.results)
        test_range == Len(self.range)
        s1 == IF test_range <= 0 THEN TapError(self, <<MsgNoRange>>) ELSE self
        s2 == IF res <= 0 THEN TapError(s1, <<MsgNoResults>>) ELSE s1
        s3 == IF (numbers > test_range) \/ (res > test_range)
              THEN TapError(s2, <<MsgMore>> \o IntStr(Max(numbers, res))
                                \o <<"/">> \o IntStr(test_range))
              ELSE s2
    IN  [s3 EXCEPT !.error_count = errs + Len(s3.tap_errors)]

\* finalize that compares only the seen numbers with the range, and
\* reports their count.
finalize_seen_only(self) ==
    LET errs == Len(self.errors)
        numbers == Len(self.numbers)
        test_range == Len(self.range)
        s1 == IF test_range <= 0 THEN TapError(self, <<MsgNoRange>>) ELSE self
        s2 == IF Len(self.results) <= 0 THEN TapError(s1, <<MsgNoResults>>) ELSE s1
        s3 == IF numbers > test_range
              THEN TapError(s2, <<MsgMore>> \o IntStr(numbers)
                                \o <<"/">> \o IntStr(test_range))
              ELSE s2
    IN  [s3 EXCEPT !.error_count = errs + Len(s3.tap_errors)]

\* finalize that wants exactly as many results as the range declares.
finalize_count_mismatch(self) ==
    LET errs == Len(self.errors)
        numbers == Len(self.numbers)
        res == Len(self.results)
        test_range == Len(self.range)
        s1 == IF test_range <= 0 THEN TapError(self, <<MsgNoRange>>) ELSE self
        s2 == IF res <= 0 THEN TapError(s1, <<MsgNoResults>>) ELSE s1
        s3 == IF (numbers # test_range) \/ (res # test_range)
              THEN TapError(s2, <<MsgMore>> \o IntStr(Max(numbers, res))
                                \o <<"/">> \o IntStr(test_range))
              ELSE s2
    IN  [s3 EXCEPT !.error_count = errs + Len(s3.tap_errors)]

\* def finalize(self)
finalize(self) ==
    LET errs == Len(self.errors)
        numbers == Len(self.numbers)
        res == Len(self.results)
        test_range == Len(self.range)
        s1 == IF test_range <= 0 THEN TapError(self, <<MsgNoRange>>) ELSE self
        s2 == IF res <= 0 THEN TapError(s1, <<MsgNoResults>>) ELSE s1
        s3 == IF (numbers > test_range) \/ (res > test_range)
              THEN TapError(s2, <<MsgMore>> \o IntStr(Max(numbers, res))
                                \o <<"/">> \o IntStr(test_range))
              ELSE s2
    IN  [s3 EXCEPT !.error_count = errs + Len(s3.tap_errors)]

\* ----------------------------------------------------- Tapper.exit_code ----
\* exit_code without the cap.
exit_code_uncapped(self) == self.error_count

\* def exit_code(self), where the assert holds.
exit_code(self) == Min(self.error_count, ExitCap)

\* ----------------------------------------------------- Tapper.summarize ----
\* [prefixed(x, emoji["disaster"]) for x in self.tap_errors]
PrefixAll(seq, emoji) == [i \in 1..Len(seq) |-> prefixed(seq[i], emoji)]

\* "{} ok  |  {} not ok  |  {} tap errors".format(s, f, e); the words that
\* the replace calls look for are atoms of their own.
SummaryText(s, f, e) ==
    IntStr(s) \o <<" ", "ok", "  |  ">> \o IntStr(f) \o <<" ", "not ok", "  |  ">>
              \o IntStr(e) \o <<" ", "tap errors">>

\* text.replace(old, new), for an old that is an atom of text.
Replace(text, old, new) ==
    [i \in 1..Len(text) |-> IF text[i] = old THEN new ELSE text[i]]

\* The verdict text of summarize: some_all + " tests failed - ", or
\* "All tests successful - ".
Verdict(self) ==
    IF self.error_count = 0 THEN "All tests successful - "
    ELSE LET all_failed == self.successes = <<>>
                           /\ Len(self.results) = Len(self.range)
         IN  IF all_failed THEN "All tests failed - " ELSE "Some tests failed - "

\* def summarize(self), run to the end of the generator: the Tapper it
\* leaves (self) and the lines it yields (lines).
summarize(self) ==
    LET emoji == self.emoji
        s1 == [self EXCEPT !.tap_errors = PrefixAll(@, emoji.disaster)]
        block1 == IF s1.results # <<>>
                  THEN <<<<>>, prefixed(<<"TAP Test results:">>, emoji.tap)>>
                       \o s1.results
                  ELSE <<>>
        block2 == IF s1.errors # <<>>
                  THEN <<<<>>, prefixed(<<"Test failures: ">>, emoji.attention)>>
                       \o s1.errors
                  ELSE <<>>
        block3 == IF s1.tap_errors # <<>>
                  THEN <<prefixed(<<"Protocol error(s) were found:">>,
                                  emoji.attention)>> \o s1.tap_errors
                  ELSE <<>>
        summary == SummaryText(Len(s1.successes), Len(s1.errors),
                               Len(s1.tap_errors))
        emoji_summary ==
            Replace(Replace(Replace(summary, "not ok", emoji.failure),
                            "ok", emoji.success),
                    "tap errors", emoji.tap_error)
        fail_emoji == IF s1.tap_errors # <<>> \/ s1.successes = <<>>
                      THEN emoji.catastrophe ELSE emoji.disaster
        last == IF s1.error_count = 0
                THEN prefixed(<<Verdict(s1)>> \o emoji_summary,
                              emoji.great_success)
                ELSE prefixed(<<Verdict(s1)>> \o emoji_summary, fail_emoji)
    IN  [self |-> s1,
         lines |-> block1 \o block2 \o block3
                   \o <<<<>>, <<"Summary: ">> \o summary, last>>]

\* for line in lines: print(line)
\* (the lines lo..hi of them, split in halves to keep the recursion shallow)
RECURSIVE PrintLines(_, _, _)
PrintLines(lines, lo, hi) ==
    IF lo > hi THEN <<>>
    ELSE IF lo = hi THEN lines[lo] \o <<NL>>
    ELSE LET mid == (lo + hi) \div 2 IN
         PrintLines(lines, lo, mid) \o PrintLines(lines, mid + 1, hi)

PrintAll(lines) == PrintLines(lines, 1, Len(lines))

\* ------------------------------------------------------------ the input ----
\* The lines that the input stream is drawn from.
OkLine(n) == <<"o", "k", " ">> \o IntStr(n) \o <<NL>>
NotOkLine(n) == <<"n", "o", "t", " ", "o", "k", " ">> \o IntStr(n) \o <<NL>>
PlanLine(a, b) == IntStr(a) \o <<".", ".">> \o IntStr(b) \o <<NL>>

ResultLines == {OkLine(n) : n \in 1..MaxNum} \cup {NotOkLine(n) : n \in 1..MaxNum}
\* 1..b for every b, the one-test plan 2..2 and the reversed plan 2..1.
PlanLines == {PlanLine(1, b) : b \in 1..MaxNum} \cup {PlanLine(2, 2), PlanLine(2, 1)}
\* A plan so long that declaring it twice gives more than ExitCap errors.
LongPlan == PlanLine(1, ExitCap + 1)
OtherLines ==
    { <<" ", "o", "k", " ", "1", " ", "-", " ", "a", " ", "#", "T", NL>>,
      <<"o", "k", " ", "x", NL>>,
      <<"o", "k", "a", "y", " ", "1", NL>>,
      <<"1", ".", ".", ".", "2", NL>>,
      <<"#", " ", "c", NL>> }
\* Lines on which process_line raises.
RaisingLines ==
    { <<"o", "k", NL>>,
      <<"n", "o", "t", " ", "o", "k", NL>>,
      <<"a", ".", ".", "b", NL>>,
      <<"o", "k", ".", ".", "1", " ", "2", NL>> }
Lines == ResultLines \cup PlanLines \cup {LongPlan} \cup OtherLines \cup RaisingLines

\* --------------------------------------------- what the input lines say ----
\* What a reader of the input takes a line for.  The program does not use
\* these: they fill the history variable parsed, which the properties read.

\* The number token of a result line, in a one-element sequence; <<>> for
\* a line that is no result line.
NumberToken(line) ==
    LET stripped == Strip(line)
        words == Split(stripped)
    IN  IF StartsWith(stripped, <<"o", "k">>) /\ Len(words) >= 2 THEN <<words[2]>>
        ELSE IF StartsWith(stripped, <<"n", "o", "t", " ", "o", "k">>)
                /\ Len(words) >= 3 THEN <<words[3]>>
        ELSE <<>>
IsResultLine(line) == NumberToken(line) # <<>>
\* The integer that a result line carries, in a one-element sequence; <<>>
\* when the line is no result line or its number token is no integer.
LineNumber(line) ==
    LET token == NumberToken(line) IN
    IF token # <<>> /\ IsInt(token[1]) THEN <<ParseInt(token[1])>> ELSE <<>>
\* The line's first word contains "..".
IsPlanLike(line) ==
    LET seq == Split(Strip(line)) IN Len(seq) > 0 /\ HasDotDot(seq[1])

\* The record of a line in the history variable parsed.
Reading(line) ==
    [result |-> IsResultLine(line), token |-> NumberToken(line),
     number |-> LineNumber(line), plan |-> IsPlanLike(line)]

\* ------------------------------------------------------------ the state ----
VARIABLES
    errors,        \* self.errors: the "not ok" result records
    successes,     \* self.successes: the "ok" result records
    results,       \* self.results: all result records, in input order
    numbers,       \* self.numbers: the test numbers seen
    range,         \* self.range: the declared test numbers
    tap_errors,    \* self.tap_errors: the protocol errors
    error_count,   \* self.error_count
    emoji,         \* self.emoji: the theme in use
    stdout,        \* everything printed so far
    pc,            \* where __main__ is: "drain", "summarize", "exit", "done",
                   \* or "crashed" once an exception has left process_line
    input,         \* the lines read so far
    report,        \* the lines that the last summarize() yielded
    exit_status,   \* the status the process exited with (NoStatus before)
    calls,         \* how often finalize and summarize have been called
    parsed,        \* history: Reading(line) of every line read so far
    twin           \* a second Tapper, with the lines its summarize() yielded,
                   \* for the runs that feed two Tappers the same lines

vars == <<errors, successes, results, numbers, range, tap_errors, error_count,
          emoji, stdout, pc, input, report, exit_status, calls, parsed, twin>>

NoStatus == -1

\* The Tapper t of __main__ and the process's stdout.
Self ==
    [errors |-> errors, successes |-> successes, results |-> results,
     numbers |-> numbers, range |-> range, tap_errors |-> tap_errors,
     error_count |-> error_count, emoji |-> emoji, stdout |-> stdout,
     exc |-> "none"]

Store(s) ==
    /\ errors' = s.errors
    /\ successes' = s.successes
    /\ results' = s.results
    /\ numbers' = s.numbers
    /\ range' = s.range
    /\ tap_errors' = s.tap_errors
    /\ error_count' = s.error_count
    /\ emoji' = s.emoji
    /\ stdout' = s.stdout

\* t = Tapper()
Init ==
    /\ errors = NewTapper.errors
    /\ successes = NewTapper.successes
    /\ results = NewTapper.results
    /\ numbers = NewTapper.numbers
    /\ range = NewTapper.range
    /\ tap_errors = NewTapper.tap_errors
    /\ error_count = NewTapper.error_count
    /\ emoji = NewTapper.emoji
    /\ stdout = NewTapper.stdout
    /\ pc = "drain"
    /\ input = <<>>
    /\ report = <<>>
    /\ exit_status = NoStatus
    /\ calls = [finalize |-> 0, summarize |-> 0]
    /\ parsed = <<>>
    /\ twin = [self |-> NewTapper, report |-> <<>>]

\* if args.ascii: t.set_ascii()  (before the first line is read)
SetAscii ==
    /\ pc = "drain"
    /\ input = <<>>
    /\ emoji = EmojiTable
    /\ Store(set_ascii(Self))
    /\ UNCHANGED <<pc, input, report, exit_status, calls, parsed, twin>>

\* One iteration of drain's loop: self.process_line(line).  An exception
\* that leaves process_line leaves drain and __main__ too: the process dies
\* with a traceback.
ProcessLine(line, limit) ==
    /\ pc = "drain"
    /\ Len(input) < limit
    /\ LET s == process_line(Self, line) IN
        /\ Store(s)
        /\ pc' = IF s.exc = "none" THEN "drain" ELSE "crashed"
        /\ exit_status' = IF s.exc = "none" THEN exit_status ELSE TracebackStatus
    /\ input' = Append(input, line)
    /\ parsed' = Append(parsed, Reading(line))
    /\ UNCHANGED <<report, calls, twin>>

Drain(limit) == \E line \in Lines : ProcessLine(line, limit)

\* The stream has ended: t.finalize()
Finalize ==
    /\ pc = "drain"
    /\ Store(finalize(Self))
    /\ pc' = "summarize"
    /\ calls' = [calls EXCEPT !.finalize = @ + 1]
    /\ UNCHANGED <<input, report, exit_status, parsed, twin>>

\* for line in t.summarize(): print(line)
Summarize ==
    /\ pc = "summarize"
    /\ LET r == summarize(Self) IN
        /\ Store([r.self EXCEPT !.stdout = @ \o PrintAll(r.lines)])
        /\ report' = r.lines
    /\ pc' = "exit"
    /\ calls' = [calls EXCEPT !.summarize = @ + 1]
    /\ UNCHANGED <<input, exit_status, parsed, twin>>

\* sys.exit(t.exit_code())
Exit ==
    /\ pc = "exit"
    /\ exit_status' = exit_code(Self)
    /\ pc' = "done"
    /\ UNCHANGED <<errors, successes, results, numbers, range, tap_errors,
                   error_count, emoji, stdout, input, report, calls, parsed,
                   twin>>

Next == SetAscii \/ Drain(MaxLines) \/ Finalize \/ Summarize \/ Exit

Spec == Init /\ [][Next]_vars

\* A caller of the class that calls finalize again on the sealed Tapper.
FinalizeAgain ==
    /\ pc = "summarize"
    /\ calls.finalize < 1 + MaxRepeat
    /\ Store(finalize(Self))
    /\ calls' = [calls EXCEPT !.finalize = @ + 1]
    /\ UNCHANGED <<pc, input, report, exit_status, parsed, twin>>

\* A caller of the class that consumes summarize() again.
SummarizeAgain ==
    /\ pc = "exit"
    /\ calls.summarize < 1 + MaxRepeat
    /\ LET r == summarize(Self) IN
        /\ Store([r.self EXCEPT !.stdout = @ \o PrintAll(r.lines)])
        /\ report' = r.lines
    /\ calls' = [calls EXCEPT !.summarize = @ + 1]
    /\ UNCHANGED <<pc, input, exit_status, parsed, twin>>

NextApi ==
    \/ SetAscii \/ Drain(MaxApiLines) \/ Finalize \/ Summarize \/ Exit
    \/ FinalizeAgain \/ SummarizeAgain

SpecApi == Init /\ [][NextApi]_vars

\* Two Tappers that are fed the same lines: t, with the theme of __init__,
\* and twin, on which set_ascii() is called before the first line.
TwinSetAscii ==
    /\ pc = "drain"
    /\ input = <<>>
    /\ twin.self.emoji = EmojiTable
    /\ twin' = [twin EXCEPT !.self = set_ascii(@)]
    /\ UNCHANGED <<errors, successes, results, numbers, range, tap_errors,
                   error_count, emoji, stdout, pc, input, report, exit_status,
                   calls, parsed>>

\* Both Tappers process the next line.
TwinLine(line) ==
    /\ twin.self.emoji = AsciiTable
    /\ pc = "drain"
    /\ Len(input) < MaxApiLines
    /\ LET s == process_line(Self, line) IN
        /\ Store(s)
        /\ pc' = IF s.exc = "none" THEN "drain" ELSE "crashed"
        /\ exit_status' = IF s.exc = "none" THEN exit_status ELSE TracebackStatus
    /\ twin' = [twin EXCEPT !.self = process_line(@, line)]
    /\ input' = Append(input, line)
    /\ parsed' = Append(parsed, Reading(line))
    /\ UNCHANGED <<report, calls>>

TwinDrain == \E line \in Lines : TwinLine(line)

\* Both Tappers are finalized.
TwinFinalize ==
    /\ twin.self.emoji = AsciiTable
    /\ pc = "drain"
    /\ Store(finalize(Self))
    /\ twin' = [twin EXCEPT !.self = finalize(@)]
    /\ pc' = "summarize"
    /\ calls' = [calls EXCEPT !.finalize = @ + 1]
    /\ UNCHANGED <<input, report, exit_status, parsed>>

\* Both summaries are consumed.
TwinSummarize ==
    /\ pc = "summarize"
    /\ LET r == summarize(Self)
           t == summarize(twin.self)
       IN  /\ Store(r.self)
           /\ report' = r.lines
           /\ twin' = [self |-> t.self, report |-> t.lines]
    /\ pc' = "exit"
    /\ calls' = [calls EXCEPT !.summarize = @ + 1]
    /\ UNCHANGED <<input, exit_status, parsed>>

NextTwin == TwinSetAscii \/ TwinDrain \/ TwinFinalize \/ TwinSummarize

SpecTwin == Init /\ [][NextTwin]_vars

\* =========================================================== properties ====
\* Helpers that read the input lines and the protocol errors.

\* The text of a sequence of lines, one after the other.
RECURSIVE Concat(_)
Concat(lines) == IF lines = <<>> THEN <<>> ELSE Head(lines) \o Concat(Tail(lines))

\* A protocol error without the glyphs that summarize has put before it.
RECURSIVE Raw(_)
Raw(msg) ==
    IF Len(msg) >= 2 /\ msg[2] = "  | " THEN Raw(SubSeq(msg, 3, Len(msg)))
    ELSE msg

\* How many protocol errors read msg / begin with the literal head.
CountMsg(msg) == Cardinality({i \in 1..Len(tap_errors) : Raw(tap_errors[i]) = msg})
CountHead(head) ==
    Cardinality({i \in 1..Len(tap_errors) : Raw(tap_errors[i])[1] = head})

ResultLineCount == Cardinality({i \in 1..Len(parsed) : parsed[i].result})

Finalized == pc \in {"summarize", "exit", "done"}

\* ---- C1 ----
\* The input is the plan line "1..N" followed by exactly N lines "ok k" or
\* "not ok k" whose numbers are a permutation of 1..N.
ValidRun ==
    LET N == Len(input) - 1 IN
    /\ N >= 1
    /\ input[1] = PlanLine(1, N)
    /\ \A k \in 1..N :
         Cardinality({i \in 2..(N + 1) : input[i] \in {OkLine(k), NotOkLine(k)}}) = 1
NotOkCount ==
    Cardinality({i \in 2..Len(input) :
                    \E k \in 1..(Len(input) - 1) : input[i] = NotOkLine(k)})

\* C1: for the input "1..N" followed by N result lines numbered by a
\* permutation of 1..N, after drain and finalize there is no protocol error,
\* error_count is the number of "not ok" lines, the exit code is that number
\* when it is at most 100, and the verdict is "Some tests failed" when some
\* but not all lines are "not ok".
Thm_C1 ==
    (ValidRun /\ Finalized) =>
        /\ tap_errors = <<>>
        /\ error_count = NotOkCount
        /\ (NotOkCount <= ExitCap => exit_code(Self) = NotOkCount)
        /\ (pc = "done" /\ NotOkCount <= ExitCap => exit_status = NotOkCount)
        /\ (pc \in {"exit", "done"} /\ 0 < NotOkCount /\ NotOkCount < Len(input) - 1
              => report[Len(report)][3] = "Some tests failed - ")

Wit_C1 ==
    /\ pc = "done"
    /\ input = <<PlanLine(1, 2), NotOkLine(2), OkLine(1)>>
    /\ exit_status = 1
    /\ report[Len(report)][3] = "Some tests failed - "

\* ---- C2 ----
\* C2: no input line aborts the stream: process_line returns normally on
\* every line, so the run is never left by an exception.
Claim_C2 == pc # "crashed"

\* ---- C3 ----
\* C3: the text written to standard output before the summary is exactly the
\* input lines, unchanged and in order, with nothing in between.
Claim_C3 == pc \in {"drain", "summarize"} => stdout = Concat(input)

\* ---- C4 ----
\* C4: a second call of finalize leaves error_count and the protocol errors
\* as the first call left them.
Claim_C4 ==
    [][(calls.finalize >= 1 /\ calls'.finalize = calls.finalize + 1)
          => (error_count' = error_count /\ tap_errors' = tap_errors)]_vars

\* ---- C5 ----
\* C5: after finalize the exit code is min(error_count, 100), an integer in
\* 0..100, and exactly 100 when failures and protocol errors together are
\* more than 100.
Thm_C5 ==
    /\ Finalized =>
          /\ exit_code(Self) \in 0..ExitCap
          /\ (error_count <= ExitCap => exit_code(Self) = error_count)
          /\ (Len(errors) + Len(tap_errors) > ExitCap => exit_code(Self) = ExitCap)
    /\ pc = "done" =>
          /\ exit_status \in 0..ExitCap
          /\ (error_count <= ExitCap => exit_status = error_count)
          /\ (Len(errors) + Len(tap_errors) > ExitCap => exit_status = ExitCap)

Wit_C5 ==
    /\ pc = "done"
    /\ Len(errors) + Len(tap_errors) > ExitCap
    /\ exit_status = ExitCap

\* ---- C6 ----
\* The result records that carry the failure glyph.
FailureRecords == {i \in 1..Len(results) : results[i][1] = emoji.failure}

\* C6: after finalize, error_count is the number of failure records plus the
\* number of protocol errors (those of finalize included), so the exit code
\* is 0 exactly when there is no failure record and no protocol error.
Thm_C6 ==
    /\ Finalized => error_count = Cardinality(FailureRecords) + Len(tap_errors)
    /\ pc = "done" =>
          (exit_status = 0 <=> (FailureRecords = {} /\ tap_errors = <<>>))

Wit_C6 ==
    /\ pc = "summarize"
    /\ FailureRecords # {}
    /\ CountMsg(<<MsgNoRange>>) = 1
    /\ error_count = Cardinality(FailureRecords) + Len(tap_errors)

\* ---- C7 ----
\* C7: summarize leaves every field of the sealed run state unchanged, and
\* consuming it a second time yields the same lines.
Claim_C7 ==
    [][(calls'.summarize = calls.summarize + 1)
          => /\ <<range, numbers, results, errors, successes, tap_errors,
                  error_count>>' =
                <<range, numbers, results, errors, successes, tap_errors,
                  error_count>>
             /\ (calls.summarize >= 1 => report' = report)]_vars

\* ---- C8 ----
\* How often the value v occurs in self.numbers.
Occurrences(v) == Cardinality({i \in 1..Len(numbers) : numbers[i] = v})

\* C8: when k >= 1 result lines carry the number n, exactly k - 1 errors
\* "Multiple results for test no. n" are recorded and n is in the seen
\* numbers exactly once; the seen numbers never hold a value twice.
Thm_C8 ==
    /\ \A n \in 1..MaxNum :
         LET k == Cardinality({i \in 1..Len(parsed) : parsed[i].number = <<n>>})
             multiple == CountMsg(<<MsgMultiple>> \o IntStr(n))
         IN  IF k >= 1
             THEN multiple = k - 1 /\ Occurrences(IntVal(n)) = 1
             ELSE multiple = 0 /\ Occurrences(IntVal(n)) = 0
    /\ \A i, j \in 1..Len(numbers) : i # j => numbers[i] # numbers[j]

Wit_C8 ==
    /\ In(1, range)
    /\ input = <<PlanLine(1, 1), OkLine(1), NotOkLine(1)>>
    /\ CountMsg(<<MsgMultiple>> \o IntStr(1)) = 1
    /\ Occurrences(IntVal(1)) = 1

\* ---- C9 ----
NoFitCount == CountHead(MsgNoFit)
\* The fields of a Tapper that process_line may change.
Fields(s) ==
    <<s.errors, s.successes, s.results, s.numbers, s.range, s.error_count,
      s.stdout, s.exc>>

\* C9: a result line whose integer number is not in the non-empty declared
\* range adds exactly one "doesn't fit" error; the errors recorded so far
\* change nothing in how a later line is processed (process_line does the
\* same with and without them, and only appends to them), and a later result
\* that is in the range and new adds no error.
Thm_C9 ==
    [][\A line \in Lines :
        (pc = "drain" /\ input' = Append(input, line)) =>
          /\ \A n \in -1..(MaxNum + 1) :
               (LineNumber(line) = <<n>> /\ range # <<>> /\ ~In(n, range)) =>
                  /\ NoFitCount' = NoFitCount + 1
                  /\ In(<<MsgNoFit>> \o IntStr(n) \o <<MsgNoFitTail>>,
                        SubSeq(tap_errors', Len(tap_errors) + 1, Len(tap_errors')))
                  /\ (line \notin RaisingLines => pc' = "drain")
          /\ \A n \in -1..(MaxNum + 1) :
               (LineNumber(line) = <<n>> /\ In(n, range) /\ ~In(IntVal(n), numbers)
                  /\ ~IsPlanLike(line)) => tap_errors' = tap_errors
          /\ LET with == process_line(Self, line)
                 without == process_line([Self EXCEPT !.tap_errors = <<>>], line)
             IN  /\ Fields(with) = Fields(without)
                 /\ with.tap_errors = tap_errors \o without.tap_errors
                 /\ tap_errors' = with.tap_errors
      ]_vars

\* An out-of-range result, then a result in the range that adds no error.
Wit_C9 ==
    /\ pc = "drain"
    /\ input = <<PlanLine(1, 1), OkLine(2), OkLine(1)>>
    /\ tap_errors = << <<MsgNoFit>> \o IntStr(2) \o <<MsgNoFitTail>> >>

\* ---- C10 ----
\* C10: when the input has no plan line and at least one result line, the
\* protocol errors after finalize contain "No test range found" and one
\* "No test range defined before result no. X" for each result line.
Thm_C10 ==
    (Finalized /\ ResultLineCount >= 1
       /\ \A i \in 1..Len(parsed) : ~parsed[i].plan) =>
        /\ CountMsg(<<MsgNoRange>>) = 1
        /\ CountHead(MsgNoRangeBefore) = ResultLineCount
        /\ \A i \in 1..Len(parsed) :
             parsed[i].result =>
                CountMsg(<<MsgNoRangeBefore>>
                         \o (IF parsed[i].number # <<>>
                             THEN IntStr(parsed[i].number[1])
                             ELSE parsed[i].token[1])) >= 1

Wit_C10 ==
    /\ pc = "summarize"
    /\ input = <<OkLine(1), NotOkLine(2)>>
    /\ CountMsg(<<MsgNoRange>>) = 1
    /\ CountHead(MsgNoRangeBefore) = 2

\* ---- C11 ----
\* C11: two runs over the same lines, one with the theme of __init__ and one
\* after set_ascii(), agree at every step on the declared range, the seen
\* numbers, the number and the success/failure classification of the result
\* records, the number of protocol errors, error_count and the exit code
\* (and on whether the line raised, on the echo and on the verdict); their
\* records and protocol errors differ in the glyph prefix only.
Thm_C11 ==
    twin.self.emoji = AsciiTable =>
        LET t == twin.self IN
        /\ emoji = EmojiTable
        /\ t.range = range
        /\ t.numbers = numbers
        /\ Len(t.results) = Len(results)
        /\ Len(t.successes) = Len(successes)
        /\ Len(t.errors) = Len(errors)
        /\ \A i \in 1..Len(results) :
             /\ results[i][1] \in {EmojiTable.success, EmojiTable.failure}
             /\ (results[i][1] = EmojiTable.success
                   <=> t.results[i][1] = AsciiTable.success)
             /\ (results[i][1] = EmojiTable.failure
                   <=> t.results[i][1] = AsciiTable.failure)
             /\ Tail(results[i]) = Tail(t.results[i])
        /\ Len(t.tap_errors) = Len(tap_errors)
        /\ \A i \in 1..Len(tap_errors) : Raw(t.tap_errors[i]) = Raw(tap_errors[i])
        /\ t.error_count = error_count
        /\ (Finalized => exit_code(t) = exit_code(Self))
        /\ (t.exc # "none" <=> pc = "crashed")
        /\ t.stdout = stdout
        /\ Len(twin.report) = Len(report)
        /\ (report # <<>> =>
              twin.report[Len(report)][3] = report[Len(report)][3])

\* Both runs have read a plan and a failure, and have been finalized and
\* summarized: the reports differ, in glyphs only.
Wit_C11 ==
    /\ twin.self.emoji = AsciiTable
    /\ emoji = EmojiTable
    /\ pc = "exit"
    /\ input = <<PlanLine(1, 1), NotOkLine(1)>>
    /\ results[1][1] = EmojiTable.failure
    /\ twin.self.results[1][1] = AsciiTable.failure
    /\ error_count = 1
    /\ twin.self.error_count = 1
    /\ report # twin.report

\* ---- C12 ----
\* The line is read as a failing result ("not ok" with a number token).
IsFailureLine(line) ==
    /\ StartsWith(Strip(line), <<"n", "o", "t", " ", "o", "k">>)
    /\ IsResultLine(line)
\* The number n has produced a failing result.
HasFailed(n) ==
    \E i \in 1..Len(input) : parsed[i].number = <<n>> /\ IsFailureLine(input[i])

\* C12: when error_count > 0, the verdict of summarize is "All tests failed"
\* exactly when there is no success record and there are as many result
\* records as declared numbers, and "Some tests failed" otherwise; and
\* whenever the verdict is "All tests failed", every number of the declared
\* range has produced a failing result.
Claim_C12 ==
    (pc \in {"exit", "done"} /\ error_count > 0) =>
        LET verdict == report[Len(report)][3] IN
        /\ verdict \in {"All tests failed - ", "Some tests failed - "}
        /\ (verdict = "All tests failed - "
              <=> (successes = <<>> /\ Len(results) = Len(range)))
        /\ (verdict = "All tests failed - "
              => \A i \in 1..Len(range) : HasFailed(range[i]))

\* ---- C13 ----
\* The word is "A..B" for integer literals A <= B.
WellFormedPlan(word) ==
    \E k \in 1..(Len(word) - 1) :
        LET a == SubSeq(word, 1, k - 1)
            b == SubSeq(word, k + 2, Len(word))
        IN  /\ word[k] = "." /\ word[k + 1] = "."
            /\ IsInt(a) /\ IsInt(b)
            /\ ParseInt(a) <= ParseInt(b)

\* C13: a line that is no result line and whose first token contains ".."
\* without being a well-formed "A..B" with integers A <= B is silently
\* ignored: the stream goes on, and the declared range and the protocol
\* errors are as they were.
Claim_C13 ==
    [][\A line \in Lines :
        (pc = "drain" /\ input' = Append(input, line)
           /\ IsPlanLike(line) /\ ~IsResultLine(line)
           /\ ~WellFormedPlan(Split(Strip(line))[1]))
        => (pc' = "drain" /\ range' = range /\ tap_errors' = tap_errors)
      ]_vars

\* ---- C14 ----
\* C14: a result line whose number token is no integer adds exactly one
\* protocol error, "Invalid test number: '<token>'", and nothing else: no
\* range error, no duplicate error, and no new element of the seen numbers.
Claim_C14 ==
    [][\A line \in Lines :
        (pc = "drain" /\ input' = Append(input, line)
           /\ IsResultLine(line) /\ LineNumber(line) = <<>>
           /\ ~IsPlanLike(line))
        => /\ tap_errors' = Append(tap_errors,
                <<MsgInvalidNumber>> \o NumberToken(line)[1] \o <<"'">>)
           /\ numbers' = numbers
      ]_vars

\* ---- C15 ----
\* How many of the protocol errors errs begin with the literal head.
HeadCount(errs, head) == Cardinality({i \in 1..Len(errs) : errs[i][1] = head})
\* The states that found_number can be called in, as far as it reads them:
\* a declared range and seen numbers over the numbers and tokens of the input.
SomeRanges == {<<>>} \cup {<<a>> : a \in 1..MaxNum}
                \cup {<<a, b>> : a \in 1..MaxNum, b \in 1..MaxNum}
SomeSeen == {IntVal(n) : n \in 1..(MaxNum + 1)} \cup {StrVal(<<"x">>)}
SomeNumbers == {<<>>} \cup {<<v>> : v \in SomeSeen}
                 \cup {<<v, w>> : v \in SomeSeen, w \in SomeSeen}
SomeTokens == {IntStr(n) : n \in 0..(MaxNum + 1)} \cup {<<"x">>, <<"1", "x">>}

\* C15 (as stated): the four checks of found_number are independent: for
\* some declared range, seen numbers and number token, a single call of
\* found_number records all four protocol errors.
Claim_C15 ==
    \E rng \in SomeRanges, nums \in SomeNumbers, tok \in SomeTokens :
        LET errs == found_number([Self EXCEPT !.range = rng, !.numbers = nums,
                                              !.tap_errors = <<>>], tok).tap_errors
        IN  /\ HeadCount(errs, MsgInvalidNumber) >= 1
            /\ HeadCount(errs, MsgNoRangeBefore) >= 1
            /\ HeadCount(errs, MsgNoFit) >= 1
            /\ HeadCount(errs, MsgMultiple) >= 1

\* C15 (amended): "No test range defined" and "doesn't fit" are alternatives:
\* the first is recorded only while no range is declared, the second only
\* once one is.  A result line adds each of the four errors at most once and
\* at most three errors in all, and three are reached.
Thm_C15 ==
    [][\A line \in Lines :
        (pc = "drain" /\ input' = Append(input, line)
           /\ IsResultLine(line) /\ ~IsPlanLike(line))
        => LET new == SubSeq(tap_errors', Len(tap_errors) + 1, Len(tap_errors'))
           IN  /\ tap_errors' = tap_errors \o new
               /\ Len(new) <= 3
               /\ HeadCount(new, MsgInvalidNumber)
                    = (IF LineNumber(line) = <<>> THEN 1 ELSE 0)
               /\ HeadCount(new, MsgNoRangeBefore) = (IF range = <<>> THEN 1 ELSE 0)
               /\ HeadCount(new, MsgNoFit) <= (IF range = <<>> THEN 0 ELSE 1)
               /\ HeadCount(new, MsgMultiple) <= 1
               /\ Len(new) = HeadCount(new, MsgInvalidNumber)
                             + HeadCount(new, MsgNoRangeBefore)
                             + HeadCount(new, MsgNoFit)
                             + HeadCount(new, MsgMultiple)
      ]_vars

\* The second "ok x" after a plan has added three errors.
Wit_C15 ==
    /\ pc = "drain"
    /\ input = <<PlanLine(1, 1), <<"o", "k", " ", "x", NL>>,
                 <<"o", "k", " ", "x", NL>>>>
    /\ Len(tap_errors) = 5
    /\ tap_errors[3] = <<MsgInvalidNumber, "x", "'">>
    /\ tap_errors[4] = <<MsgNoFit, "x", MsgNoFitTail>>
    /\ tap_errors[5] = <<MsgMultiple, "x">>

\* ---- C16 ----
\* The numbers A..B that the well-formed plan word "A..B" declares.
PlanInterval(word) ==
    LET k == CHOOSE k \in 1..(Len(word) - 1) :
                 /\ word[k] = "." /\ word[k + 1] = "."
                 /\ IsInt(SubSeq(word, 1, k - 1))
                 /\ IsInt(SubSeq(word, k + 2, Len(word)))
    IN  ParseInt(SubSeq(word, 1, k - 1))..ParseInt(SubSeq(word, k + 2, Len(word)))
\* The elements of a sequence.
Elements(seq) == {seq[i] : i \in 1..Len(seq)}

\* C16: the declared range never holds a number twice and changes only when
\* a line declares an interval A..B; it is then the union of what it was and
\* A..B, and the declaration records exactly one overlap error for each
\* number of A..B that was in the range already and none for the others.
Thm_C16 ==
    [][/\ Cardinality(Elements(range')) = Len(range')
       /\ (pc # "drain" => range' = range)
       /\ \A line \in Lines :
            (pc = "drain" /\ input' = Append(input, line)) =>
              LET new == SubSeq(tap_errors', Len(tap_errors) + 1, Len(tap_errors'))
                  word == Split(Strip(line))[1]
              IN  IF IsPlanLike(line) /\ WellFormedPlan(word)
                  THEN /\ Elements(range') = Elements(range) \cup PlanInterval(word)
                       /\ SubSeq(range', 1, Len(range)) = range
                       /\ \A n \in PlanInterval(word) :
                            Cardinality({i \in 1..Len(new) :
                                new[i] = <<MsgOverlap>> \o word \o <<"' at '">>
                                         \o IntStr(n) \o <<"'">>})
                              = (IF In(n, range) THEN 1 ELSE 0)
                       /\ HeadCount(new, MsgOverlap)
                            = Cardinality(PlanInterval(word) \cap Elements(range))
                  ELSE /\ range' = range
                       /\ HeadCount(new, MsgOverlap) = 0
      ]_vars

\* "1..2" declared after "1..1": the range is 1, 2 and 1 is an overlap.
Wit_C16 ==
    /\ pc = "drain"
    /\ input = <<PlanLine(1, 1), PlanLine(1, 2)>>
    /\ range = <<1, 2>>
    /\ tap_errors = << <<MsgOverlap>> \o <<"1", ".", ".", "2">> \o <<"' at '">>
                       \o IntStr(1) \o <<"'">> >>

\* ---- C17 ----
\* C17: there are never more seen numbers than result records; finalize
\* records "More test results than possible for test range: X/R", R the
\* size of the declared range, exactly when the seen numbers or the result
\* records are more than R, and X, the larger of the two counts, is the
\* number of result records.
Thm_C17 ==
    /\ Len(numbers) <= Len(results)
    /\ Finalized =>
         LET R == Len(range)
             X == Max(Len(numbers), Len(results))
         IN  /\ X = Len(results)
             /\ IF Len(numbers) > R \/ Len(results) > R
                THEN /\ CountHead(MsgMore) = 1
                     /\ CountMsg(<<MsgMore>> \o IntStr(Len(results)) \o <<"/">>
                                 \o IntStr(R)) = 1
                ELSE CountHead(MsgMore) = 0

\* Two results for the one declared test: one seen number, X = 2, R = 1.
Wit_C17 ==
    /\ pc = "summarize"
    /\ input = <<PlanLine(1, 1), OkLine(1), NotOkLine(1)>>
    /\ Len(numbers) = 1
    /\ CountMsg(<<MsgMore>> \o IntStr(2) \o <<"/">> \o IntStr(1)) = 1

\* ---- C18 ----
\* The first token of the line is exactly "ok" / its first two tokens are
\* exactly "not" and "ok".
LeadsOk(line) ==
    LET words == Split(Strip(line)) IN
    Len(words) >= 1 /\ words[1] = <<"o", "k">>
LeadsNotOk(line) ==
    LET words == Split(Strip(line)) IN
    Len(words) >= 2 /\ words[1] = <<"n", "o", "t">> /\ words[2] = <<"o", "k">>

\* C18: a line adds a success record only if its first token is exactly
\* "ok" and a failure record only if its first two tokens are exactly "not"
\* and "ok"; any other line adds no record and has no number validated; and
\* there are always as many result records as success and failure records
\* together.
Claim_C18 ==
    [][/\ Len(results') = Len(successes') + Len(errors')
       /\ \A line \in Lines :
            (pc = "drain" /\ input' = Append(input, line)) =>
              /\ (successes' # successes => LeadsOk(line))
              /\ (errors' # errors => LeadsNotOk(line))
              /\ (~LeadsOk(line) /\ ~LeadsNotOk(line) =>
                    /\ results' = results
                    /\ numbers' = numbers
                    /\ (~IsPlanLike(line) => tap_errors' = tap_errors))
      ]_vars

\* ---- C19 ----
\* The input is N result lines "ok k" or "not ok k" whose numbers are a
\* permutation of 1..N, followed by the plan line "1..N".
PlanAtEnd ==
    LET N == Len(input) - 1 IN
    /\ N >= 1
    /\ input[N + 1] = PlanLine(1, N)
    /\ \A k \in 1..N :
         Cardinality({i \in 1..N : input[i] \in {OkLine(k), NotOkLine(k)}}) = 1

\* C19: a result number is checked against the range declared by the lines
\* before it only, and no later line removes or alters a recorded protocol
\* error; so for N valid result lines followed by the plan "1..N" the run
\* ends with one "No test range defined before result no. k" for each of the
\* N results and a non-zero exit code.
Thm_C19 ==
    [][/\ \A line \in Lines :
            (pc = "drain" /\ input' = Append(input, line)) =>
              LET new == SubSeq(tap_errors', Len(tap_errors) + 1, Len(tap_errors'))
              IN  /\ tap_errors' = tap_errors \o new
                  /\ \A n \in -1..(MaxNum + 1) :
                       (LineNumber(line) = <<n>> /\ ~IsPlanLike(line)) =>
                          /\ HeadCount(new, MsgNoRangeBefore)
                               = (IF range = <<>> THEN 1 ELSE 0)
                          /\ HeadCount(new, MsgNoFit)
                               = (IF range # <<>> /\ ~In(n, range) THEN 1 ELSE 0)
       /\ (PlanAtEnd /\ Finalized)' =>
            /\ CountHead(MsgNoRangeBefore)' = Len(input') - 1
            /\ \A k \in 1..(Len(input') - 1) :
                 CountMsg(<<MsgNoRangeBefore>> \o IntStr(k))' = 1
            /\ error_count' >= Len(input') - 1
            /\ exit_code(Self)' > 0
            /\ (pc' = "done" => exit_status' > 0)
      ]_vars

\* Two results, then the plan 1..2: two no-range errors, exit status 2.
Wit_C19 ==
    /\ pc = "done"
    /\ input = <<OkLine(2), OkLine(1), PlanLine(1, 2)>>
    /\ range = <<1, 2>>
    /\ CountHead(MsgNoRangeBefore) = 2
    /\ exit_status = 2

\* ---- C20 ----
\* The input is a plan line "1..N" followed by "ok k" lines for a non-empty
\* proper subset of 1..N, each number once.
UnderReported ==
    /\ Len(input) >= 2
    /\ \E N \in (2..MaxNum) \cup {ExitCap + 1} :
         /\ input[1] = PlanLine(1, N)
         /\ Len(input) - 1 < N
         /\ \A i \in 2..Len(input) : \E k \in 1..N : input[i] = OkLine(k)
         /\ \A i, j \in 2..Len(input) : i # j => input[i] # input[j]

\* C20: when the plan "1..N" comes first and only some of its tests, but at
\* least one, report a result, each once and each "ok", finalize records no
\* protocol error: error_count is 0, the exit code is 0 and the verdict is
\* "All tests successful".
Thm_C20 ==
    (UnderReported /\ Finalized) =>
        /\ tap_errors = <<>>
        /\ errors = <<>>
        /\ error_count = 0
        /\ exit_code(Self) = 0
        /\ (pc = "done" => exit_status = 0)
        /\ (pc \in {"exit", "done"} =>
              report[Len(report)][3] = "All tests successful - ")

\* The plan 1..2 and a result for test 2 only: exit status 0.
Wit_C20 ==
    /\ pc = "done"
    /\ input = <<PlanLine(1, 2), OkLine(2)>>
    /\ Len(range) = 2
    /\ Len(results) = 1
    /\ exit_status = 0
    /\ report[Len(report)][3] = "All tests successful - "

====
